---- MODULE Spec2Model ----
(***************************************************************************)
(* A model of package reg (src/reg.go): typed accessors over one open      *)
(* Windows Registry key.  The registry is an external store shared with    *)
(* other processes; the package keeps no state of its own besides the      *)
(* handle the caller holds.                                                *)
(*                                                                         *)
(* Text is modelled as a sequence of UTF-16 code units (0 is NUL), data as *)
(* a sequence of bytes.  A uint32 is a record [hi, lo] of its two 16-bit   *)
(* halves, because 2^32-1 does not fit TLC's integers.             *)
(***************************************************************************)
EXTENDS Integers, Sequences, FiniteSets, TLC

\* len(buf), len(data): the fixed local buffers, 1 << 10 elements
BufLen == 1024
\* syscall.REG_SZ, syscall.REG_BINARY, syscall.REG_DWORD
REG_SZ == 1
REG_BINARY == 3
REG_DWORD == 4
\* tags the package does not recognise: REG_NONE, REG_EXPAND_SZ
OtherTags == {0, 2}

\* the most subkeys the environment creates under a key
MaxSubKeys == 2
\* the most changes other processes make during one SubKeys or Values call
MaxEnvSteps == 1

Nil == "nil"
Nul == 0

(***************************************************************************)
(* Text and byte conversions                                               *)
(***************************************************************************)
Fill(n, b) == [i \in 1..n |-> b]

HasNul(s) == \E i \in 1..Len(s) : s[i] = Nul

FirstNul(s) ==
    IF HasNul(s)
    THEN CHOOSE i \in 1..Len(s) : s[i] = Nul /\ \A j \in 1..(i-1) : s[j] # Nul
    ELSE Len(s) + 1

\* syscall.UTF16PtrFromString: a pointer to s with a terminating NUL, or
\* (nil, EINVAL) when s contains a NUL; every caller drops the error.
UTF16PtrFromString(s) ==
    IF HasNul(s) THEN [null |-> TRUE, mem |-> <<>>]
    ELSE [null |-> FALSE, mem |-> s \o <<Nul>>]

\* how the platform reads an LPCWSTR argument: NULL names the key itself
\* (or its unnamed value), otherwise the units before the first NUL
CStr(p) == IF p.null THEN <<>> ELSE SubSeq(p.mem, 1, FirstNul(p.mem) - 1)

\* syscall.UTF16ToString: the units before the first NUL
UTF16ToString(s) == SubSeq(s, 1, FirstNul(s) - 1)

U32(hi, lo) == [hi |-> hi, lo |-> lo]
U32Zero == U32(0, 0)

\* as LittleEndianBytes, had the write used binary.BigEndian
LittleEndianBytesMsbFirst(v) ==
    << v.hi \div 256, v.hi % 256, v.lo \div 256, v.lo % 256 >>
\* binary.Write(buf, binary.LittleEndian, val)
LittleEndianBytes(v) ==
    << v.lo % 256, v.lo \div 256, v.hi % 256, v.hi \div 256 >>

\* binary.Read(buf, binary.LittleEndian, &val): io.ReadFull of 4 bytes
BinaryRead(d) ==
    IF Len(d) = 0 THEN [val |-> U32Zero, err |-> "EOF"]
    ELSE IF Len(d) < 4 THEN [val |-> U32Zero, err |-> "unexpected EOF"]
    ELSE [val |-> U32(d[3] + 256 * d[4], d[1] + 256 * d[2]), err |-> Nil]

\* binary.Uvarint: the value as its base-128 digits, least significant
\* first (the groups never overlap, so x | b<<s appends a digit), and n:
\* bytes read, 0 when the buffer ends inside the varint, -(i+1) on overflow
RECURSIVE UvarintFrom(_, _, _)
UvarintFrom(buf, i, digits) ==
    IF i > Len(buf) THEN [val |-> <<>>, n |-> 0]
    ELSE IF i - 1 = 10 THEN [val |-> <<>>, n |-> 0 - i]
    ELSE IF buf[i] < 128
         THEN IF i - 1 = 9 /\ buf[i] > 1
              THEN [val |-> <<>>, n |-> 0 - i]
              ELSE [val |-> Append(digits, buf[i]), n |-> i]
         ELSE UvarintFrom(buf, i + 1, Append(digits, buf[i] % 128))
Uvarint(buf) == UvarintFrom(buf, 1, <<>>)

\* val > 1 and val == 1 on a digit sequence
GreaterThanOne(val) ==
    \E i \in 1..Len(val) : val[i] # 0 /\ (i > 1 \/ val[i] > 1)
IsOne(val) ==
    /\ Len(val) >= 1
    /\ val[1] = 1
    /\ \A i \in 2..Len(val) : val[i] = 0

\* (*[1 << 10]uint16)(unsafe.Pointer(&d[0])): the bytes of the backing
\* array data (d, then the zeros the array was created with) as code units
UnitsOf(d) ==
    LET padded == d \o Fill(BufLen - Len(d), 0)
    IN  [i \in 1..(BufLen \div 2) |-> padded[2 * i - 1] + 256 * padded[2 * i]]

(***************************************************************************)
(* The registry store: per key, its values in enumeration order and the    *)
(* names of its subkeys in enumeration order                               *)
(***************************************************************************)
IndexOf(vals, n) ==
    IF \E i \in 1..Len(vals) : vals[i].name = n
    THEN CHOOSE i \in 1..Len(vals) : vals[i].name = n
    ELSE 0

NamesOf(vals) == {vals[i].name : i \in 1..Len(vals)}

Value(n, typ, data) == [name |-> n, typ |-> typ, data |-> data]

PutValue(vals, n, typ, data) ==
    IF IndexOf(vals, n) = 0
    THEN Append(vals, Value(n, typ, data))
    ELSE [vals EXCEPT ![IndexOf(vals, n)] = Value(n, typ, data)]

Remove(s, i) == SubSeq(s, 1, i - 1) \o SubSeq(s, i + 1, Len(s))

(***************************************************************************)
(* The platform calls the package issues, as functions of the store        *)
(***************************************************************************)
Keys == {"K1", "K2"}
NoKey == "none"

KeyPath(k) == IF k = "K1" THEN <<107, 49>> ELSE <<107, 50>>

\* syscall.RegOpenKeyEx(root, ps, 0, KEY_READ|KEY_SET_VALUE, &key)
RegOpenKeyEx(st, ps) ==
    IF \E k \in Keys : KeyPath(k) = CStr(ps)
    THEN [err |-> Nil, key |-> CHOOSE k \in Keys : KeyPath(k) = CStr(ps)]
    ELSE [err |-> "ERROR_FILE_NOT_FOUND", key |-> NoKey]

\* syscall.RegQueryInfoKey(k, ..., &nkeys, ..., &nvals, ...)
RegQueryInfoKey(st, h) ==
    IF h = NoKey THEN [err |-> "ERROR_INVALID_HANDLE", nkeys |-> 0, nvals |-> 0]
    ELSE [err |-> Nil, nkeys |-> Len(st[h].subs), nvals |-> Len(st[h].vals)]

\* syscall.RegEnumKeyEx(k, i, &buf[0], &blen, ...): the name at index i
\* and its terminating NUL are written over the start of buf
RegEnumKeyEx(st, h, i, buf, blen) ==
    IF h = NoKey THEN [err |-> "ERROR_INVALID_HANDLE", buf |-> buf]
    ELSE IF i >= Len(st[h].subs) THEN [err |-> "ERROR_NO_MORE_ITEMS", buf |-> buf]
    ELSE LET n == st[h].subs[i + 1]
         IN  IF Len(n) + 1 > blen THEN [err |-> "ERROR_MORE_DATA", buf |-> buf]
             ELSE [err |-> Nil,
                   buf |-> n \o <<Nul>> \o SubSeq(buf, Len(n) + 2, Len(buf))]

\* syscall.RegQueryValueEx(k, kname, nil, &typ, &data[0], &dlen)
RegQueryValueEx(st, h, kname, dlen) ==
    IF h = NoKey THEN [err |-> "ERROR_INVALID_HANDLE", typ |-> 0, data |-> <<>>]
    ELSE LET i == IndexOf(st[h].vals, CStr(kname))
         IN  IF i = 0 THEN [err |-> "ERROR_FILE_NOT_FOUND", typ |-> 0, data |-> <<>>]
             ELSE IF Len(st[h].vals[i].data) > dlen
                  THEN [err |-> "ERROR_MORE_DATA", typ |-> st[h].vals[i].typ,
                        data |-> <<>>]
                  ELSE [err |-> Nil, typ |-> st[h].vals[i].typ,
                        data |-> st[h].vals[i].data]

\* regSetValueExP.Call(k, uname, 0, typ, &data[0], len): the status and
\* the store afterwards
RegSetValueEx(st, h, uname, typ, data) ==
    IF h = NoKey THEN [ret |-> 6, store |-> st]
    ELSE [ret |-> 0,
          store |-> [st EXCEPT ![h].vals = PutValue(@, CStr(uname), typ, data)]]

\* myRegEnumValue -> regEnumValueP.Call(hKey, index, name, &blen, 0, &typ,
\* data, &dlen); a non-zero status comes back as a non-nil error
myRegEnumValue(st, h, index, blen, dlen) ==
    IF h = NoKey THEN [err |-> "ERROR_INVALID_HANDLE", name |-> <<>>, typ |-> 0]
    ELSE IF index >= Len(st[h].vals)
         THEN [err |-> "ERROR_NO_MORE_ITEMS", name |-> <<>>, typ |-> 0]
    ELSE LET v == st[h].vals[index + 1]
         IN  IF Len(v.name) + 1 > blen \/ Len(v.data) > dlen
             THEN [err |-> "ERROR_MORE_DATA", name |-> <<>>, typ |-> 0]
             ELSE [err |-> Nil, name |-> v.name, typ |-> v.typ]

(***************************************************************************)
(* The package's functions: what each returns on a store                   *)
(***************************************************************************)
Out(ret, err, calls) ==
    [ret |-> ret, err |-> err, aborted |-> FALSE, calls |-> calls]
\* panic(err), log.Fatal(err): the process ends
Abort(err, calls) ==
    [ret |-> <<>>, err |-> err, aborted |-> TRUE, calls |-> calls]

\* func (k RegKey) regValue(key string) ([]byte, uint32, error)
regValue(st, h, key) ==
    LET r == RegQueryValueEx(st, h, UTF16PtrFromString(key), BufLen)
    IN  IF r.err # Nil THEN [d |-> <<>>, typ |-> 0, err |-> r.err]
        ELSE [d |-> r.data, typ |-> r.typ, err |-> Nil]

\* as DWordValueOf, had the test of typ been left out
DWordValueAnyTag(st, h, key) ==
    LET r == regValue(st, h, key)
    IN  IF r.err # Nil THEN Out(U32Zero, r.err, 1)
        ELSE LET b == BinaryRead(r.d)
             IN  IF b.err # Nil THEN Out(U32Zero, b.err, 1)
                 ELSE Out(b.val, Nil, 1)
\* func (k RegKey) DWordValue(key string) (uint32, error)
DWordValueOf(st, h, key) ==
    LET r == regValue(st, h, key)
    IN  IF r.err # Nil THEN Out(U32Zero, r.err, 1)
        ELSE IF r.typ # REG_DWORD THEN Out(U32Zero, "Registry key not a DWORD", 1)
        ELSE LET b == BinaryRead(r.d)
             IN  IF b.err # Nil THEN Out(U32Zero, b.err, 1)
                 ELSE Out(b.val, Nil, 1)

\* func (k RegKey) BoolValue(key string) (bool, error)
BoolValueOf(st, h, key) ==
    LET r == regValue(st, h, key)
    IN  IF r.err # Nil THEN Out(FALSE, r.err, 1)
        ELSE IF r.typ # REG_DWORD THEN Out(FALSE, "Registry key not a DWORD", 1)
        ELSE LET u == Uvarint(r.d)
             IN  IF u.n < 0 \/ GreaterThanOne(u.val)
                 THEN Out(FALSE, "Value not a bool", 1)
                 ELSE Out(IsOne(u.val), Nil, 1)

\* func (k RegKey) StringValue(key string) (string, error); &d[0] panics
\* on an empty slice (index out of range); when the 1024 bytes of data hold
\* no NUL unit the read runs past the array and picks up `beyond`
StringValueOf(st, h, key, beyond) ==
    LET r == regValue(st, h, key)
    IN  IF r.err # Nil THEN Out(<<>>, r.err, 1)
        ELSE IF r.typ # REG_SZ THEN Out(<<>>, "Registry key not a string", 1)
        ELSE IF Len(r.d) = 0 THEN Abort("index out of range", 1)
        ELSE Out(UTF16ToString(UnitsOf(r.d) \o beyond), Nil, 1)

\* func (k RegKey) SetDWordValue(name string, val uint32) error
SetDWordValueOf(st, h, name, val) ==
    LET uname == UTF16PtrFromString(name)
        buf == LittleEndianBytes(val)
        r == RegSetValueEx(st, h, uname, REG_DWORD, buf)
    IN  IF r.ret # 0
        THEN [out |-> Out(<<>>, "SetDWordValue error", 1), store |-> st]
        ELSE [out |-> Out(<<>>, Nil, 1), store |-> r.store]

\* as SubKeysIter, had the name been taken from all of buf rather than
\* from the units before the first NUL
SubKeysIterWholeBuffer(st, h, i, buf, subkeys) ==
    LET r == RegEnumKeyEx(st, h, i, buf, Len(buf))
    IN  [err |-> r.err, buf |-> r.buf,
         subkeys |-> IF r.err # Nil THEN subkeys
                     ELSE Append(subkeys, SelectSeq(r.buf, LAMBDA u : u # Nul))]
\* one turn of the loop of SubKeys, lines 51-58
SubKeysIter(st, h, i, buf, subkeys) ==
    LET blen == Len(buf)
        r == RegEnumKeyEx(st, h, i, buf, blen)
    IN  [err |-> r.err, buf |-> r.buf,
         subkeys |-> IF r.err # Nil THEN subkeys
                     ELSE Append(subkeys, UTF16ToString(r.buf))]

RECURSIVE SubKeysLoop(_, _, _, _, _, _)
SubKeysLoop(st, h, i, nkeys, buf, subkeys) ==
    IF i >= nkeys THEN Out(subkeys, Nil, 1 + i)
    ELSE LET it == SubKeysIter(st, h, i, buf, subkeys)
         IN  IF it.err # Nil THEN Abort(it.err, 2 + i)
             ELSE SubKeysLoop(st, h, i + 1, nkeys, it.buf, it.subkeys)

\* func (k RegKey) SubKeys() []string
SubKeysOf(st, h) ==
    LET q == RegQueryInfoKey(st, h)
    IN  IF q.err # Nil THEN Abort(q.err, 1)
        ELSE SubKeysLoop(st, h, 0, q.nkeys, Fill(BufLen, 0), <<>>)

\* one turn of the loop of Values, lines 135-151
ValuesIter(st, h, i, values) ==
    LET blen == BufLen
        dlen == BufLen
        r == myRegEnumValue(st, h, i, blen, dlen)
        valName == UTF16ToString(r.name)
    IN  [err |-> r.err,
         values |->
            IF r.err # Nil THEN values
            ELSE IF r.typ = REG_SZ THEN (valName :> "string") @@ values
            ELSE IF r.typ = REG_DWORD THEN (valName :> "uint32") @@ values
            ELSE IF r.typ = REG_BINARY THEN (valName :> "binary") @@ values
            ELSE values]

RECURSIVE ValuesLoop(_, _, _, _, _)
ValuesLoop(st, h, i, nvals, values) ==
    IF i >= nvals THEN Out(values, Nil, 1 + i)
    ELSE LET it == ValuesIter(st, h, i, values)
         IN  IF it.err # Nil THEN Abort(it.err, 2 + i)
             ELSE ValuesLoop(st, h, i + 1, nvals, it.values)

\* func (k RegKey) Values() map[string]string
ValuesOf(st, h) ==
    LET q == RegQueryInfoKey(st, h)
    IN  IF q.err # Nil THEN Abort(q.err, 1)
        ELSE ValuesLoop(st, h, 0, q.nvals, <<>>)

(***************************************************************************)
(* The state: the registry, the caller's handle, and the last call made    *)
(***************************************************************************)
VARIABLES
    store,      \* the registry: key -> [vals, subs]
    handle,     \* the key the caller's RegKey refers to, NoKey for RegKey(0)
                \* and for a closed handle
    crashed,    \* the process was ended by a panic or log.Fatal
    last,       \* the last completed call and what it returned
    prev,       \* what the call before `last` was, when a SetDWordValue
    run,        \* a SubKeys or Values call between two of its platform calls
    snaps       \* the subkeys (values) the key held during the enumeration in `last`

vars == <<store, handle, crashed, last, prev, run, snaps>>

\* names a caller may pass: "", "a", and "a\x00b"
GoNames == { <<>>, <<97>>, <<97, 0, 98>> }
\* paths a caller may pass: the path of K1 and a path that does not exist
GoPaths == { <<107, 49>>, <<113>> }
\* values a caller may write: 0, 1, 256, 2^32-1
DWords == { U32(0, 0), U32(0, 1), U32(0, 256), U32(65535, 65535) }
\* what a read past the data array may find
Beyond == { <<Nul>>, <<66, Nul>> }

NameA == <<97>>
Hi == <<104, 0, 105, 0, 0, 0>>

\* typed data other processes store under name "a" of K1
EnvValues ==
    { [typ |-> REG_SZ, data |-> Hi],
      [typ |-> REG_SZ, data |-> <<>>],
      [typ |-> REG_SZ, data |-> Fill(BufLen, 65)],
      [typ |-> REG_BINARY, data |-> <<1, 0, 0, 0>>],
      [typ |-> REG_BINARY, data |-> Fill(BufLen + 1, 0)],
      [typ |-> REG_DWORD, data |-> <<>>],
      [typ |-> REG_DWORD, data |-> <<2, 0, 0, 0>>],
      [typ |-> REG_DWORD, data |-> <<128, 128, 128, 128>>],
      [typ |-> REG_DWORD, data |-> Fill(9, 128) \o <<2>>],
      [typ |-> 2, data |-> Hi] }

\* what other processes store where, in the sequential specification
SeqSamples(k, n) ==
    IF k = "K1" /\ n = NameA THEN EnvValues
    ELSE IF k = "K1" THEN { [typ |-> REG_SZ, data |-> Hi] }
    ELSE {}

\* and in the other specifications
FewSamples(k, n) ==
    IF k = "K1" /\ n = NameA
    THEN { [typ |-> REG_BINARY, data |-> <<7>>], [typ |-> 0, data |-> <<>>],
           [typ |-> REG_SZ, data |-> Fill(BufLen + 1, 65)] }
    ELSE IF k = "K1"
    THEN { [typ |-> REG_BINARY, data |-> <<7>>], [typ |-> 0, data |-> <<>>] }
    ELSE {}

RegNames == { <<>>, NameA }
SubNames == { <<120>>, <<121, 122, 119>>, <<118, 117>> }

Idle == [op |-> "idle", i |-> 0, n |-> 0, buf |-> <<>>, acc |-> <<>>, env |-> 0]

Event(op, h, name, val, out) ==
    [op |-> op, h |-> h, name |-> name, val |-> val, ret |-> out.ret,
     err |-> out.err, aborted |-> out.aborted, calls |-> out.calls]

Summary(l) ==
    IF l.op = "SetDWordValue"
    THEN [op |-> l.op, name |-> l.name, val |-> l.val, ok |-> l.err = Nil]
    ELSE [op |-> "other", name |-> <<>>, val |-> U32Zero, ok |-> FALSE]

Init ==
    /\ store = [k \in Keys |->
                  IF k = "K1" THEN [vals |-> <<>>, subs |-> <<>>]
                  ELSE [vals |-> <<Value(NameA, REG_BINARY, <<7>>)>>,
                        subs |-> <<>>]]
    /\ handle = NoKey
    /\ crashed = FALSE
    /\ last = Event("init", NoKey, <<>>, U32Zero, Out(<<>>, Nil, 0))
    /\ prev = Summary(last)
    /\ run = Idle
    /\ snaps = {}

Ready == ~crashed /\ run.op = "idle"

\* a call that completes in this step
Completes(ev, st) ==
    /\ last' = ev
    /\ prev' = Summary(last)
    /\ store' = st
    /\ crashed' = ev.aborted

\* func OpenRegKey(path string, root RegKey) (RegKey, error)
OpenRegKey(path) ==
    /\ Ready
    /\ LET ps == UTF16PtrFromString(path)
           r == RegOpenKeyEx(store, ps)
       IN  /\ handle' = IF r.err # Nil THEN NoKey ELSE r.key
           /\ Completes(Event("OpenRegKey", handle, path, U32Zero,
                              Out(<<>>, r.err, 1)), store)
    /\ UNCHANGED run /\ snaps' = {}

\* func (k RegKey) Close()
Close ==
    /\ Ready
    /\ handle' = NoKey
    /\ Completes(Event("Close", handle, <<>>, U32Zero, Out(<<>>, Nil, 1)), store)
    /\ UNCHANGED run /\ snaps' = {}

SubKeys ==
    /\ Ready
    /\ Completes(Event("SubKeys", handle, <<>>, U32Zero, SubKeysOf(store, handle)),
                 store)
    /\ UNCHANGED <<handle, run>> /\ snaps' = {}

Values ==
    /\ Ready
    /\ Completes(Event("Values", handle, <<>>, U32Zero, ValuesOf(store, handle)),
                 store)
    /\ UNCHANGED <<handle, run>> /\ snaps' = {}

DWordValue(key) ==
    /\ Ready
    /\ Completes(Event("DWordValue", handle, key, U32Zero,
                       DWordValueOf(store, handle, key)), store)
    /\ UNCHANGED <<handle, run>> /\ snaps' = {}

BoolValue(key) ==
    /\ Ready
    /\ Completes(Event("BoolValue", handle, key, U32Zero,
                       BoolValueOf(store, handle, key)), store)
    /\ UNCHANGED <<handle, run>> /\ snaps' = {}

StringValue(key) ==
    /\ Ready
    /\ \E beyond \in Beyond :
          Completes(Event("StringValue", handle, key, U32Zero,
                          StringValueOf(store, handle, key, beyond)), store)
    /\ UNCHANGED <<handle, run>> /\ snaps' = {}

SetDWordValue(name, val) ==
    /\ Ready
    /\ LET r == SetDWordValueOf(store, handle, name, val)
       IN  Completes(Event("SetDWordValue", handle, name, val, r.out), r.store)
    /\ UNCHANGED <<handle, run>> /\ snaps' = {}

\* func init(): a new process after the old one was ended
Restart ==
    /\ crashed
    /\ handle' = NoKey
    /\ run' = Idle
    /\ Completes(Event("init", NoKey, <<>>, U32Zero, Out(<<>>, Nil, 0)), store)
    /\ snaps' = {}

(***************************************************************************)
(* SubKeys and Values one platform call at a time                          *)
(***************************************************************************)
\* a SubKeys or Values call has made its first platform call
Begins ==
    /\ last' = Event("running", handle, <<>>, U32Zero, Out(<<>>, Nil, 1))
    /\ prev' = Summary(last')
    /\ UNCHANGED <<store, crashed>>

Finish(op, out) ==
    /\ Completes(Event(op, handle, <<>>, U32Zero, out), store)
    /\ run' = Idle

BeginSubKeys ==
    /\ Ready
    /\ LET q == RegQueryInfoKey(store, handle)
       IN  IF q.err # Nil THEN Finish("SubKeys", Abort(q.err, 1)) /\ snaps' = {}
           ELSE /\ snaps' = {store[handle].subs}
                /\ IF q.nkeys = 0 THEN Finish("SubKeys", Out(<<>>, Nil, 1))
                   ELSE /\ run' = [op |-> "SubKeys", i |-> 0, n |-> q.nkeys,
                                   buf |-> Fill(BufLen, 0), acc |-> <<>>, env |-> 0]
                        /\ Begins
    /\ UNCHANGED handle

\* as StepSubKeys, had the loop run while i <= nkeys
StepSubKeysOneMore ==
    /\ run.op = "SubKeys"
    /\ LET it == SubKeysIter(store, handle, run.i, run.buf, run.acc)
       IN  IF it.err # Nil THEN Finish("SubKeys", Abort(it.err, 2 + run.i))
           ELSE IF run.i >= run.n
                THEN Finish("SubKeys", Out(it.subkeys, Nil, 2 + run.i))
                ELSE /\ run' = [run EXCEPT !.i = @ + 1, !.buf = it.buf,
                                           !.acc = it.subkeys]
                     /\ UNCHANGED <<store, crashed, last, prev>>
    /\ UNCHANGED <<handle, snaps>>

\* lines 51-58 of SubKeys: the platform call of one turn of the loop
StepSubKeys ==
    /\ run.op = "SubKeys"
    /\ LET it == SubKeysIter(store, handle, run.i, run.buf, run.acc)
       IN  IF it.err # Nil THEN Finish("SubKeys", Abort(it.err, 2 + run.i))
           ELSE IF run.i + 1 >= run.n
                THEN Finish("SubKeys", Out(it.subkeys, Nil, 2 + run.i))
                ELSE /\ run' = [run EXCEPT !.i = @ + 1, !.buf = it.buf,
                                           !.acc = it.subkeys]
                     /\ UNCHANGED <<store, crashed, last, prev>>
    /\ UNCHANGED <<handle, snaps>>

BeginValues ==
    /\ Ready
    /\ LET q == RegQueryInfoKey(store, handle)
       IN  IF q.err # Nil THEN Finish("Values", Abort(q.err, 1)) /\ snaps' = {}
           ELSE /\ snaps' = {store[handle].vals}
                /\ IF q.nvals = 0 THEN Finish("Values", Out(<<>>, Nil, 1))
                   ELSE /\ run' = [op |-> "Values", i |-> 0, n |-> q.nvals,
                                   buf |-> <<>>, acc |-> <<>>, env |-> 0]
                        /\ Begins
    /\ UNCHANGED handle

StepValues ==
    /\ run.op = "Values"
    /\ LET it == ValuesIter(store, handle, run.i, run.acc)
       IN  IF it.err # Nil THEN Finish("Values", Abort(it.err, 2 + run.i))
           ELSE IF run.i + 1 >= run.n
                THEN Finish("Values", Out(it.values, Nil, 2 + run.i))
                ELSE /\ run' = [run EXCEPT !.i = @ + 1, !.acc = it.values]
                     /\ UNCHANGED <<store, crashed, last, prev>>
    /\ UNCHANGED <<handle, snaps>>

(***************************************************************************)
(* Other processes: the registry is shared                                 *)
(***************************************************************************)
EnvEvent == Event("Env", NoKey, <<>>, U32Zero, Out(<<>>, Nil, 0))

Env(st) ==
    /\ store' = st
    /\ st # store
    /\ IF run.op = "idle"
       THEN /\ last' = EnvEvent
            /\ prev' = Summary(last)
            /\ snaps' = {}
            /\ run' = run
       ELSE /\ run.env < MaxEnvSteps
            /\ run' = [run EXCEPT !.env = @ + 1]
            /\ snaps' = snaps \cup {IF run.op = "SubKeys" THEN st[handle].subs
                                     ELSE st[handle].vals}
            /\ UNCHANGED <<last, prev>>
    /\ UNCHANGED <<handle, crashed>>

\* rich: the sequential specification's samples, otherwise the few
EnvSetValue(rich) ==
    \E k \in Keys, n \in RegNames :
       \E v \in IF rich THEN SeqSamples(k, n) ELSE FewSamples(k, n) :
          Env([store EXCEPT ![k].vals = PutValue(@, n, v.typ, v.data)])

EnvDeleteValue ==
    \E k \in Keys :
       \E i \in 1..Len(store[k].vals) :
          Env([store EXCEPT ![k].vals = Remove(@, i)])

EnvCreateSubKey ==
    /\ Len(store["K1"].subs) < MaxSubKeys
    /\ \E n \in SubNames :
          /\ \A i \in 1..Len(store["K1"].subs) : store["K1"].subs[i] # n
          /\ Env([store EXCEPT !["K1"].subs = Append(@, n)])

EnvDeleteSubKey ==
    \E i \in 1..Len(store["K1"].subs) :
       Env([store EXCEPT !["K1"].subs = Remove(@, i)])

Calls(D) ==
    \/ \E path \in GoPaths : OpenRegKey(path)
    \/ Close
    \/ \E key \in GoNames : DWordValue(key)
    \/ \E key \in GoNames : BoolValue(key)
    \/ \E key \in GoNames : StringValue(key)
    \/ \E name \in GoNames, val \in D : SetDWordValue(name, val)
    \/ Restart

\* every call runs to its end before anything else happens; other
\* processes write and delete values of the key in between
Next ==
    \/ Calls(DWords)
    \/ SubKeys
    \/ Values
    \/ EnvSetValue(TRUE)
    \/ EnvDeleteValue

Spec == Init /\ [][Next]_vars

\* the same, with other processes creating and deleting subkeys
NextKeys ==
    \/ Calls({U32(0, 1)})
    \/ SubKeys
    \/ Values
    \/ EnvSetValue(FALSE)
    \/ EnvDeleteValue
    \/ EnvCreateSubKey
    \/ EnvDeleteSubKey

SpecKeys == Init /\ [][NextKeys]_vars

\* other processes act between the platform calls of SubKeys and Values
NextConc ==
    \/ Calls({U32(0, 1)})
    \/ BeginSubKeys
    \/ StepSubKeys
    \/ BeginValues
    \/ StepValues
    \/ EnvSetValue(FALSE)
    \/ EnvDeleteValue
    \/ EnvCreateSubKey
    \/ EnvDeleteSubKey

SpecConc == Init /\ [][NextConc]_vars

(***************************************************************************)
(* Properties                                                              *)
(***************************************************************************)
Readers == {"DWordValue", "BoolValue", "StringValue"}
Accessors == Readers \cup {"SetDWordValue"}
SingleCall == Accessors \cup {"OpenRegKey", "Close"}

\* the value stored under exactly this name in the key of the last call
Exists(name) == last.h # NoKey /\ name \in NamesOf(store[last.h].vals)
Stored(name) == store[last.h].vals[IndexOf(store[last.h].vals, name)]

ZeroResult ==
    /\ last.op = "DWordValue" => last.ret = U32Zero
    /\ last.op = "BoolValue" => last.ret = FALSE
    /\ last.op = "StringValue" => last.ret = <<>>

AfterSet ==
    /\ prev.op = "SetDWordValue"
    /\ prev.ok
    /\ prev.name = last.name

Label(typ) ==
    IF typ = REG_SZ THEN "string"
    ELSE IF typ = REG_DWORD THEN "uint32"
    ELSE "binary"

Labelled(vals) ==
    {i \in 1..Len(vals) : vals[i].typ \in {REG_SZ, REG_DWORD, REG_BINARY}}

\* name |-> label of its stored tag, for the values with a supported tag
ExpectedLabels(vals) ==
    [n \in {vals[i].name : i \in Labelled(vals)} |->
        Label(vals[IndexOf(vals, n)].typ)]

\* some value's name (with its NUL) or data exceeds the 1024-element buffers
Oversize(vals) ==
    \E i \in 1..Len(vals) :
        Len(vals[i].name) + 1 > BufLen \/ Len(vals[i].data) > BufLen

\* C1: a successful SetDWordValue(name, v) followed immediately by
\* DWordValue(name) on the same key returns v and no error, whatever the
\* name held before.
C1_SetThenGet ==
    (last.op = "DWordValue" /\ AfterSet) =>
        (last.err = Nil /\ ~last.aborted /\ last.ret = prev.val)

C1_Witness ==
    /\ last.op = "DWordValue"
    /\ AfterSet
    /\ last.name = NameA
    /\ last.ret = U32(65535, 65535)

\* C2: a typed reader called on an existing value whose stored tag is not
\* the tag it expects returns an error and the zero result.
C2_TagMismatch ==
    /\ (last.op \in {"DWordValue", "BoolValue"} /\ Exists(last.name)
            /\ Stored(last.name).typ # REG_DWORD)
          => (last.err # Nil /\ ~last.aborted /\ ZeroResult)
    /\ (last.op = "StringValue" /\ Exists(last.name)
            /\ Stored(last.name).typ # REG_SZ)
          => (last.err # Nil /\ ~last.aborted /\ ZeroResult)

C2_Witness ==
    /\ last.op = "DWordValue"
    /\ Exists(last.name)
    /\ Stored(last.name).typ = REG_SZ
    /\ Stored(last.name).data = Hi
    /\ last.err = "Registry key not a DWORD"

\* C3: a reader called with a name that does not exist under the key
\* returns the platform's not-found error and the zero result.
C3_NotFound ==
    (last.op \in Readers /\ last.h # NoKey /\ ~Exists(last.name)) =>
        (last.err = "ERROR_FILE_NOT_FOUND" /\ ~last.aborted /\ ZeroResult)

\* C4: in every state of an open key Values() returns the map from the
\* names of the values with a supported tag to the labels of their tags;
\* a value with another tag is left out and does not make the call fail.
C4_ValuesMap ==
    (last.op = "Values" /\ last.h # NoKey) =>
        (~last.aborted /\ last.ret = ExpectedLabels(store[last.h].vals))

\* What Values() does: the map of C4 while every value's name and data fit
\* the 1024-element buffers, the end of the process once one does not.
ValuesWithinBuffers ==
    (last.op = "Values" /\ last.h # NoKey) =>
        IF Oversize(store[last.h].vals) THEN last.aborted
        ELSE ~last.aborted /\ last.ret = ExpectedLabels(store[last.h].vals)

\* C5: after a successful SetDWordValue(name, v), BoolValue(name) returns
\* true for v = 1, false for v = 0, and an error for every other v.
C5_BoolAfterSet ==
    (last.op = "BoolValue" /\ AfterSet) =>
        /\ prev.val = U32(0, 1) => (last.err = Nil /\ last.ret = TRUE)
        /\ prev.val = U32(0, 0) => (last.err = Nil /\ last.ret = FALSE)
        /\ prev.val \notin {U32(0, 0), U32(0, 1)} => last.err # Nil

\* C6: on an open key SubKeys() returns exactly the names the platform
\* reports, the i-th at index i, each independent of the names before it;
\* without subkeys it returns the empty sequence.
C6_SubKeys ==
    (last.op = "SubKeys" /\ last.h # NoKey) =>
        (~last.aborted /\ last.err = Nil /\ last.ret = store[last.h].subs)

C6_Witness ==
    /\ last.op = "SubKeys"
    /\ ~last.aborted
    /\ last.ret = << <<121, 122, 119>>, <<120>> >>

\* C7: DWordValue, BoolValue, StringValue and SetDWordValue never end the
\* process.
C7_AccessorsReturn == last.op \in Accessors => ~last.aborted

\* C8: only SetDWordValue changes the store; a successful one sets value
\* `name` of the handle's key to DWORD with the little-endian bytes of v
\* and changes nothing else; a failed one changes nothing.
C8_Frame ==
    [][ last'.op \notin {"Env", "running"} =>
           IF last'.op = "SetDWordValue" /\ last'.err = Nil
           THEN store' = [store EXCEPT ![last'.h].vals =
                             PutValue(@, last'.name, REG_DWORD,
                                      LittleEndianBytes(last'.val))]
           ELSE store' = store ]_vars

\* C9 as stated: SubKeys and Values return the contents of the key at one
\* single moment and are not made to abort by what other processes do
\* meanwhile.
C9_Atomic ==
    /\ (last.op = "SubKeys" /\ last.h # NoKey) =>
          \E s \in snaps : ~last.aborted /\ last.ret = s
    /\ (last.op = "Values" /\ last.h # NoKey) =>
          \E s \in snaps :
             IF Oversize(s) THEN last.aborted
             ELSE ~last.aborted /\ last.ret = ExpectedLabels(s)

\* C9 amended: the six other operations make one platform call each;
\* SubKeys and Values make one query call and then one call per index, and
\* return the contents of the key at one moment when no other process
\* changed its subkeys (values) between those calls.
C9_AtomicWhenUndisturbed ==
    /\ last.op \in SingleCall => last.calls = 1
    /\ (last.op = "SubKeys" /\ last.h # NoKey /\ Cardinality(snaps) = 1) =>
          \A s \in snaps :
             ~last.aborted /\ last.ret = s /\ last.calls = 1 + Len(s)
    /\ (last.op = "Values" /\ last.h # NoKey /\ Cardinality(snaps) = 1) =>
          \A s \in snaps :
             IF Oversize(s) THEN last.aborted
             ELSE /\ ~last.aborted
                  /\ last.ret = ExpectedLabels(s)
                  /\ last.calls = 1 + Len(s)

C9_Witness ==
    /\ last.op = "SubKeys"
    /\ Cardinality(snaps) = 1
    /\ Len(last.ret) = 2
    /\ last.calls = 3

\* C10: BoolValue on a DWORD-tagged value succeeds exactly when the bytes
\* decode as an unsigned varint of value 0 or 1, and returns an error when
\* the value is greater or the decoding fails.
C10_BoolDecode ==
    (last.op = "BoolValue" /\ Exists(last.name)
        /\ Stored(last.name).typ = REG_DWORD
        /\ Len(Stored(last.name).data) <= BufLen) =>
        LET u == Uvarint(Stored(last.name).data)
        IN  IF u.n > 0 /\ ~GreaterThanOne(u.val)
            THEN last.err = Nil /\ last.ret = IsOne(u.val)
            ELSE last.err # Nil

====
